---- MODULE Spec2Model ----
(***************************************************************************)
(* A model of the PID-agent repository: the simulated serial device        *)
(* (fastapi_app/utils/serial_comm.py MockSerial), the SerialManager, the   *)
(* device router's handlers, the in-memory DataLogger of the agent, the    *)
(* PIDOptimizer and the channel simulator of tests/mock_pid_system.py.     *)
(*                                                                         *)
(* Numbers.  Temperatures and gains are fixed-point integers in units of   *)
(* 1/100 (25.0 degrees = 2500, kp 1.0 = 100); times are milliseconds;      *)
(* control_period is in ms and max_duty in percent, as in the code.        *)
(***************************************************************************)
EXTENDS Integers, Sequences, FiniteSets, TLC

VARIABLES
    now,             \* the wall clock, datetime.now() / time.time(), in ms
    serial_manager,  \* device_router.serial_manager: "None", "mock" or "real"
    connection,      \* SerialManager.connection: "None", "open" or "closed"
    channels,        \* MockSerial.channels: channel id -> parameter record
    last_update,     \* MockSerial.last_update
    last_data,       \* SerialManager.last_data
    data,            \* DataLogger.data of the agent: channel id -> list of records
    pid_system,      \* the MockPIDSystem of the test harness, if one is built
    sent,            \* how many commands the connection or the simulator got
    last_op,         \* the operation performed last, with its inputs
    ret,             \* what that operation returned
    db,              \* table channel_logs of DBlogger: the channel ids with rows
    file             \* the file save_to_file wrote last

vars == <<now, serial_manager, connection, channels, last_update, last_data,
          data, pid_system, sent, last_op, ret, db, file>>

(***************************************************************************)
(* Bounds of the model.                                                    *)
(***************************************************************************)
NumChannels == 2      \* num_channels the objects are constructed with
MaxTime == 1100       \* the clock stops advancing here (ms)
MaxLog == 2           \* polls stop when a channel's series holds this many
MaxCommands == 2      \* commands sent to one connection
MaxCalls == 3         \* calls made to one MockPIDSystem, reads included

ChannelIds == 0 .. (NumChannels - 1)

(***************************************************************************)
(* Program constants.                                                      *)
(***************************************************************************)
update_interval == 100    \* MockSerial.update_interval, 0.1 s

\* np.clip on numbers, and max(lo, min(hi, v)).
NpClip(v, lo, hi) == IF v < lo THEN lo ELSE IF v > hi THEN hi ELSE v

\* The channel a MockSerial creates: in __init__, in write() for an id it
\* does not hold, and in reset().
NewChannel ==
    [temperature |-> 2500, target_temp |-> 2500, kp |-> 100, ki |-> 10,
     kd |-> 5, control_period |-> 100, max_duty |-> 80, heating |-> FALSE]

\* MockSerial.__init__: one channel per id in range(num_channels).
InitChannels == [id \in ChannelIds |-> NewChannel]

\* Python's None, as the value of last_data and of ret.
NoneVal == [none |-> TRUE]

\* No MockSerial object (no connection, or a real serial port).
NoDevice == <<>>

\* DataLogger.__init__: an empty list per channel.
EmptyLog == [c \in ChannelIds |-> <<>>]

\* The entry of last_op for an operation that reads no line.
NoLine == [kind |-> "none"]
NoFile == [format |-> "none", text |-> <<>>]

(***************************************************************************)
(* Command text.  A command is the text "TYPE:part:part..."; the device    *)
(* splits it on ':' and a part on ','.  It is modelled by its type and the *)
(* list of the parts after it, each part the list of its comma-separated   *)
(* tokens.  A token is an integer literal, a float literal or other text.  *)
(***************************************************************************)
IntTok(v) == [kind |-> "int", val |-> v]
FloatTok(v) == [kind |-> "float", val |-> v]
WordTok == [kind |-> "word", val |-> 0]

\* int(text): only an integer literal converts, anything else is ValueError.
CanInt(part) == Len(part) = 1 /\ part[1].kind = "int"

\* float(text): integer and float literals convert.  A float literal holds
\* its value in 1/100, an integer literal "n" converts to n.0.
CanFloat(tok) == tok.kind \in {"int", "float"}
ParseFloat(tok) == IF tok.kind = "int" THEN tok.val * 100 ELSE tok.val

\* The f-string of update_channel_pid.  kp, ki, kd and target_temp are floats;
\* control_period and max_duty are Optional[int] and print "None" when None.
\* An Optional[int] is the empty sequence (None) or <<n>>.
OptIntTok(v) == IF v = <<>> THEN WordTok ELSE IntTok(v[1])

PidCommand(channel_id, p) ==
    [type |-> "PID",
     rest |-> << <<IntTok(channel_id)>>,
                 <<FloatTok(p.kp), FloatTok(p.ki), FloatTok(p.kd),
                   FloatTok(p.target_temp), OptIntTok(p.control_period),
                   OptIntTok(p.max_duty)>> >>]

\* The f-string of SerialManager.set_pid_params: a comma follows the channel,
\* so the text after "PID:" is one part of seven tokens.
SetPidCommand(channel, p, control_period, max_duty) ==
    [type |-> "PID",
     rest |-> << <<IntTok(channel), FloatTok(p.kp), FloatTok(p.ki),
                   FloatTok(p.kd), FloatTok(p.target_temp),
                   IntTok(control_period), IntTok(max_duty)>> >>]

\* The f-strings of start_heating and stop_heating.
HeatCommand(channel, on) ==
    [type |-> "HEAT",
     rest |-> << <<IntTok(channel)>>, <<IntTok(IF on THEN 1 ELSE 0)>> >>]

(***************************************************************************)
(* MockSerial                                                              *)
(***************************************************************************)
\* A PID branch that stores the gains and the target once these four are
\* converted.
PidParamsOkGainsOnly(params) ==
    /\ Len(params) >= 4
    /\ \A i \in 1 .. 4 : CanFloat(params[i])

\* The try block of the PID branch: all six conversions are made before
\* dict.update is called; ValueError and IndexError are caught.
PidParamsOk(params) ==
    /\ Len(params) >= 6
    /\ \A i \in 1 .. 4 : CanFloat(params[i])
    /\ \A i \in 5 .. 6 : params[i].kind = "int"

PidUpdate(ch, params) ==
    [ch EXCEPT !.kp = ParseFloat(params[1]), !.ki = ParseFloat(params[2]),
               !.kd = ParseFloat(params[3]),
               !.target_temp = ParseFloat(params[4]),
               !.control_period = params[5].val, !.max_duty = params[6].val]

\* The HEAT branch: the flag is set, and the temperature moves at once.
HeatUpdate(ch, heating_state) ==
    [ch EXCEPT !.heating = heating_state,
               !.temperature =
                   IF heating_state THEN @ + 10
                   ELSE IF @ > 2500 THEN @ - 5 ELSE @]

\* MockSerial.write: the channels after the command was processed.  Every
\* path returns len(data); no exception leaves the method.
Write(chs, cmd) ==
    IF 1 + Len(cmd.rest) < 2 THEN chs
    ELSE IF ~CanInt(cmd.rest[1]) THEN chs
    ELSE
      LET channel_id == cmd.rest[1][1].val
          chs1 == IF channel_id \in DOMAIN chs THEN chs
                  ELSE chs @@ (channel_id :> NewChannel)
      IN  IF cmd.type = "HEAT" THEN
              IF Len(cmd.rest) >= 2 /\ CanInt(cmd.rest[2])
              THEN [chs1 EXCEPT ![channel_id] =
                        HeatUpdate(@, cmd.rest[2][1].val # 0)]
              ELSE chs1
          ELSE IF cmd.type = "PID" THEN
              IF Len(cmd.rest) >= 2 /\ PidParamsOk(cmd.rest[2])
              THEN [chs1 EXCEPT ![channel_id] = PidUpdate(@, cmd.rest[2])]
              ELSE chs1
          ELSE chs1

\* readline's temperature change of one channel.
TempStep(ch) ==
    IF ch.heating THEN [ch EXCEPT !.temperature = @ + 5]
    ELSE IF ch.temperature > 2500 THEN [ch EXCEPT !.temperature = @ - 2]
    ELSE ch

\* The channel_data entry readline builds.
ChannelData(id, ch) ==
    [id |-> id, temperature |-> ch.temperature,
     pid_params |-> [kp |-> ch.kp, ki |-> ch.ki, kd |-> ch.kd,
                     target_temp |-> ch.target_temp,
                     control_period |-> ch.control_period,
                     max_duty |-> ch.max_duty],
     heating |-> ch.heating]

\* strftime('%Y-%m-%dT%H:%M:%S'): the time cut to the whole second.
StrfTime(t) == (t \div 1000) * 1000

\* Lines.  b'' is the empty line; json.dumps(obj) is a line holding obj;
\* a garbage line is text that is no JSON.
EmptyLine == [kind |-> "empty"]
GarbageLine == [kind |-> "garbage"]
JsonDumps(obj) == [kind |-> "json", obj |-> obj]

\* MockSerial.readline at time t: the line and the device's new state.
Readline(chs, lu, t) ==
    IF t - lu < update_interval
    THEN [line |-> EmptyLine, channels |-> chs, last_update |-> lu]
    ELSE LET chs2 == [id \in DOMAIN chs |->
                         IF id \in ChannelIds THEN TempStep(chs[id])
                         ELSE chs[id]]
             obj == [timestamp |-> StrfTime(t),
                     channels |-> [i \in 1 .. NumChannels |->
                                      ChannelData(i - 1, chs2[i - 1])],
                     status |-> "running"]
         IN  [line |-> JsonDumps(obj), channels |-> chs2, last_update |-> t]

\* MockSerial.reset(): every channel in range is rebuilt.
MockReset(chs) ==
    [id \in DOMAIN chs |-> IF id \in ChannelIds THEN NewChannel ELSE chs[id]]

(***************************************************************************)
(* SerialManager                                                           *)
(***************************************************************************)
\* json.loads(line.decode()): the object, or JSONDecodeError.
JsonLoads(line) ==
    IF line.kind = "json" THEN [ok |-> TRUE, obj |-> line.obj]
    ELSE [ok |-> FALSE, obj |-> <<>>]

\* "if data:" - an empty object is false.
Truthy(obj) == DOMAIN obj # {}

\* The snapshot get_status makes up when it has nothing to return.
EmptyData(t) == [timestamp |-> StrfTime(t), channels |-> <<>>]

\* A get_status that forgets the held snapshot when the line gave no data.
FallbackForgets(ld, t) == EmptyData(t)

\* What get_status falls back to when the line gave no data.
Fallback(ld, t) == IF ld # NoneVal THEN ld ELSE EmptyData(t)

\* SerialManager.get_status on a connected manager that read `line`:
\* the value returned, which is also the new last_data.
GetStatus(line, ld, t) ==
    IF line.kind # "empty" /\ JsonLoads(line).ok /\ Truthy(JsonLoads(line).obj)
    THEN JsonLoads(line).obj
    ELSE Fallback(ld, t)

(***************************************************************************)
(* DataLogger (core/utils/data_logger.py), the agent's in-memory store     *)
(***************************************************************************)
\* The record log_data stores for one channel entry.
LogRecord(ch, timestamp) ==
    [temperature |-> ch.temperature, target_temp |-> ch.pid_params.target_temp,
     kp |-> ch.pid_params.kp, ki |-> ch.pid_params.ki, kd |-> ch.pid_params.kd,
     heating |-> ch.heating, timestamp |-> timestamp]

\* The loop of log_data over the entries of "channels": an entry whose id is
\* in range is appended, any other is passed over.
RECURSIVE LogChannels(_, _, _)
LogChannels(d, chans, timestamp) ==
    IF chans = <<>> THEN d
    ELSE LET ch == Head(chans)
             d1 == IF ch.id \in ChannelIds
                   THEN [d EXCEPT ![ch.id] = Append(@, LogRecord(ch, timestamp))]
                   ELSE d
         IN  LogChannels(d1, Tail(chans), timestamp)

\* DataLogger.log_data(channel_data) at time t.  A missing timestamp is
\* replaced by the current time, missing channels by the empty list.
LogData(d, channel_data, t) ==
    LogChannels(d,
                IF "channels" \in DOMAIN channel_data
                THEN channel_data.channels ELSE <<>>,
                IF "timestamp" \in DOMAIN channel_data
                THEN channel_data.timestamp ELSE t)

(***************************************************************************)
(* DBlogger (fastapi_app/utils/data_store.py), the persistent log          *)
(***************************************************************************)
\* The table channel_logs is kept as the set of the channel_id values that
\* have rows in it: log_data inserts rows, the clear operations delete all
\* the rows of one channel_id or of every one, and nothing else writes.

\* DBlogger.log_data(channel_data): one row for every entry of the list,
\* whatever its id.
DbLogData(rows, channel_data) ==
    rows \cup {channel_data[i].id : i \in 1 .. Len(channel_data)}

\* status.get('channels', [])
StatusChannels(status) ==
    IF "channels" \in DOMAIN status THEN status.channels ELSE <<>>

\* DELETE FROM channel_logs WHERE channel_id = ?
DbDeleteChannel(rows, channel_id) == rows \ {channel_id}

(***************************************************************************)
(* Inputs                                                                  *)
(***************************************************************************)
StartTime == 900               \* the clock's value when the program starts
TimeSteps == {50, 100}         \* how far the clock moves between operations

\* Bodies of the PID update request (PIDParams).  The first is the one of
\* tests/test_integration.py with the defaults of the model class; the
\* second is out of every documented range; the third has no max_duty.
PidInputs ==
    { [kp |-> 200, ki |-> 15, kd |-> 5, target_temp |-> 5000,
       control_period |-> <<100>>, max_duty |-> <<80>>],
      [kp |-> 20000, ki |-> -100, kd |-> 2000, target_temp |-> 5000,
       control_period |-> <<5>>, max_duty |-> <<150>>],
      [kp |-> 300, ki |-> 20, kd |-> 10, target_temp |-> 6000,
       control_period |-> <<200>>, max_duty |-> <<>>] }

\* What a real serial port may deliver to readline: nothing, text that is no
\* JSON, the empty JSON object, a JSON object without "channels", and a
\* snapshot of all channels.
RealSnapshot(t, temp) ==
    [timestamp |-> StrfTime(t),
     channels |-> [i \in 1 .. NumChannels |->
                      ChannelData(i - 1, [NewChannel EXCEPT !.temperature = temp])],
     status |-> "running"]

RealLines(t) ==
    { EmptyLine, GarbageLine, JsonDumps(<<>>),
      JsonDumps([timestamp |-> StrfTime(t), status |-> "running"]) }
    \cup { JsonDumps(RealSnapshot(t, temp)) : temp \in {2500, 3000} }

(***************************************************************************)
(* Operations                                                              *)
(***************************************************************************)
\* The entry of last_op: the operation, the channel it names (-1: none), whether
\* an exception left it, the line it read and the request body it was given.
Op(name, channel, raised, line) ==
    [op |-> name, channel |-> channel, raised |-> raised, line |-> line,
     params |-> NoneVal]

Connected == serial_manager # "None" /\ connection = "open"

\* The repository holds two programs that share no state: the application
\* (fastapi_app) and the test harness around MockPIDSystem (tests).  A
\* behaviour is a run of one of them; the application builds no MockPIDSystem.
AppRunning == pid_system = NoDevice

\* A connect_device that assigns the globals before it knows that all three
\* objects were built.
GlobalsAssignedEarly(old, new, built) == new

\* "全部初始化成功后，更新全局变量": the globals take the new objects once
\* all of them are built; an exception before that leaves the old ones.
GlobalsAfterConnect(old, new, built) == IF built THEN new ELSE old

\* POST /connect: a new SerialManager is connected, then the logger and the
\* agent are built, and only then are the globals replaced.  A real port may
\* fail to open, and building the agent may raise.  The new DBlogger opens
\* the table that is there.
ConnectDevice ==
    \E use_mock \in BOOLEAN, opens \in BOOLEAN, agent_ok \in BOOLEAN :
        LET old == [serial_manager |-> serial_manager,
                    connection |-> connection, channels |-> channels,
                    last_update |-> last_update, last_data |-> last_data,
                    data |-> data, sent |-> sent]
            new == [serial_manager |-> IF use_mock THEN "mock" ELSE "real",
                    connection |-> "open",
                    channels |-> IF use_mock THEN InitChannels ELSE NoDevice,
                    last_update |-> now, last_data |-> NoneVal,
                    data |-> EmptyLog, sent |-> 0]
            globals == GlobalsAfterConnect(old, new, opens /\ agent_ok)
        IN  /\ AppRunning
            /\ use_mock => opens
            /\ serial_manager' = globals.serial_manager
            /\ connection' = globals.connection
            /\ channels' = globals.channels
            /\ last_update' = globals.last_update
            /\ last_data' = globals.last_data
            /\ data' = globals.data
            /\ sent' = globals.sent
            /\ last_op' = Op("connect_device", -1, ~(opens /\ agent_ok), NoLine)
            /\ ret' = NoneVal
            /\ UNCHANGED <<now, pid_system, db, file>>

\* POST /disconnect with an open connection.
DisconnectDevice ==
    /\ Connected
    /\ serial_manager' = "None"
    /\ connection' = "None"
    /\ channels' = NoDevice
    /\ last_data' = NoneVal
    /\ data' = EmptyLog
    /\ sent' = 0
    /\ last_op' = Op("disconnect_device", -1, FALSE, NoLine)
    /\ ret' = NoneVal
    /\ UNCHANGED <<now, last_update, pid_system, db, file>>

\* Time passes.
AdvanceTime ==
    \E d \in TimeSteps :
        /\ now + d <= MaxTime
        /\ now' = now + d
        /\ UNCHANGED <<serial_manager, connection, channels, last_update,
                       last_data, data, pid_system, sent, last_op, ret,
                       db, file>>

\* GET /status: get_status reads one line, and the snapshot it returns is
\* logged to the DBlogger and then to the agent's DataLogger.
GetDeviceStatus ==
    /\ Connected
    /\ \A c \in ChannelIds : Len(data[c]) < MaxLog
    /\ LET dev == IF serial_manager = "mock"
                  THEN Readline(channels, last_update, now)
                  ELSE [line |-> EmptyLine, channels |-> channels,
                        last_update |-> last_update]
       IN  \E line \in (IF serial_manager = "mock" THEN {dev.line}
                        ELSE RealLines(now)) :
               LET status == GetStatus(line, last_data, now)
               IN  /\ channels' = dev.channels
                   /\ last_update' = dev.last_update
                   /\ last_data' = status
                   /\ ret' = status
                   /\ db' = DbLogData(db, StatusChannels(status))
                   /\ data' = LogData(data, status, now)
                   /\ last_op' = Op("get_status", -1, FALSE, line)
    /\ UNCHANGED <<now, serial_manager, connection, pid_system, sent, file>>

\* A command that was sent, as the `line` of last_op.
Sent(cmd) == [kind |-> "command", cmd |-> cmd]

\* POST /channel/{channel_id}/pid: the command is sent as it is, for any
\* channel id.
UpdateChannelPid ==
    \E channel_id \in 0 .. NumChannels, p \in PidInputs :
        /\ Connected
        /\ sent < MaxCommands
        /\ sent' = sent + 1
        /\ channels' = IF serial_manager = "mock"
                       THEN Write(channels, PidCommand(channel_id, p))
                       ELSE channels
        /\ last_op' = [Op("update_channel_pid", channel_id, FALSE,
                          Sent(PidCommand(channel_id, p)))
                          EXCEPT !.params = p]
        /\ ret' = NoneVal
        /\ UNCHANGED <<now, serial_manager, connection, last_update,
                       last_data, data, pid_system, db, file>>

\* POST /channel/{channel_id}/control: start_heating or stop_heating, which
\* send HEAT for a channel in range and fail for any other.
ControlChannel ==
    \E channel_id \in 0 .. NumChannels, heating \in BOOLEAN :
        /\ Connected
        /\ sent < MaxCommands
        /\ sent' = sent + 1
        /\ channels' = IF serial_manager = "mock" /\ channel_id \in ChannelIds
                       THEN Write(channels, HeatCommand(channel_id, heating))
                       ELSE channels
        /\ last_op' = Op(IF heating THEN "start_heating" ELSE "stop_heating",
                         channel_id, channel_id \notin ChannelIds, NoLine)
        /\ ret' = NoneVal
        /\ UNCHANGED <<now, serial_manager, connection, last_update,
                       last_data, data, pid_system, db, file>>

\* A send_command that writes to any connection object it holds.
CanSendUnchecked(conn) == conn # "None"

\* The two tests of send_command: a connection object is held, and it is
\* open.
CanSend(conn) == conn # "None" /\ conn = "open"

\* SerialManager.set_pid_params: False for a channel out of range; else the
\* period and the duty are clamped and the command is sent, which gives False
\* without an open connection.  A missing period or duty takes the default
\* of the signature, 100.
SetPidParams ==
    \E channel \in 0 .. NumChannels, p \in PidInputs :
        LET control_period == NpClip(IF p.control_period = <<>> THEN 100
                                     ELSE p.control_period[1], 10, 1000)
            max_duty == NpClip(IF p.max_duty = <<>> THEN 100
                               ELSE p.max_duty[1], 0, 100)
            cmd == SetPidCommand(channel, p, control_period, max_duty)
            sends == channel \in ChannelIds /\ CanSend(connection)
        IN  /\ serial_manager # "None"
            /\ sent < MaxCommands
            /\ sent' = IF Connected THEN sent + 1 ELSE sent
            /\ channels' = IF serial_manager = "mock" /\ sends
                           THEN Write(channels, cmd)
                           ELSE channels
            /\ last_op' = [Op("set_pid_params", channel, FALSE,
                              IF sends THEN Sent(cmd) ELSE NoLine)
                              EXCEPT !.params = p]
            /\ ret' = [result |-> sends]
            /\ UNCHANGED <<now, serial_manager, connection, last_update,
                           last_data, data, pid_system, db, file>>

\* SerialManager.reset(channel): on a mock connection reset() rebuilds the
\* channels; with a channel in range it calls MockSerial.reset(channel),
\* which takes no argument, and TypeError leaves the method.
Reset ==
    \E channel \in {-1} \cup ChannelIds :
        /\ Connected
        /\ serial_manager = "mock"
        /\ sent < MaxCommands
        /\ sent' = sent + 1
        /\ channels' = IF channel \in ChannelIds THEN channels
                       ELSE MockReset(channels)
        /\ last_op' = Op("reset", channel, channel \in ChannelIds, NoLine)
        /\ ret' = NoneVal
        /\ UNCHANGED <<now, serial_manager, connection, last_update,
                       last_data, data, pid_system, db, file>>

(***************************************************************************)
(* SerialManager called directly                                           *)
(***************************************************************************)
\* PID commands for a channel as text of any content: a well-formed one, one
\* with three fields, one whose period is a word, one whose duty is a float
\* literal, and one without the parameter part.
RawPidCommands(channel) ==
    { PidCommand(channel, [kp |-> 200, ki |-> 15, kd |-> 5,
                           target_temp |-> 5000, control_period |-> <<200>>,
                           max_duty |-> <<60>>]),
      [type |-> "PID",
       rest |-> << <<IntTok(channel)>>,
                   <<FloatTok(300), FloatTok(20), FloatTok(10)>> >>],
      [type |-> "PID",
       rest |-> << <<IntTok(channel)>>,
                   <<FloatTok(300), FloatTok(20), FloatTok(10), FloatTok(6000),
                     WordTok, IntTok(50)>> >>],
      [type |-> "PID",
       rest |-> << <<IntTok(channel)>>,
                   <<FloatTok(300), FloatTok(20), FloatTok(10), FloatTok(6000),
                     IntTok(300), FloatTok(5000)>> >>],
      [type |-> "PID", rest |-> << <<IntTok(channel)>> >>] }

\* SerialManager(port, baudrate, num_channels, use_mock): no connection and
\* no snapshot yet.
NewManager ==
    \E use_mock \in BOOLEAN :
        /\ AppRunning
        /\ serial_manager = "None"
        /\ serial_manager' = IF use_mock THEN "mock" ELSE "real"
        /\ connection' = "None"
        /\ channels' = NoDevice
        /\ last_data' = NoneVal
        /\ sent' = 0
        /\ last_op' = Op("SerialManager", -1, FALSE, NoLine)
        /\ ret' = NoneVal
        /\ UNCHANGED <<now, last_update, data, pid_system, db, file>>

\* SerialManager.connect(): an open connection is closed first; a mock
\* connection is built and opened; a real port may fail to open, which
\* leaves the manager with the connection object it had, now closed.
ManagerConnect ==
    \E opens \in BOOLEAN :
        /\ AppRunning
        /\ serial_manager # "None"
        /\ serial_manager = "mock" => opens
        /\ connection' = IF opens THEN "open"
                         ELSE IF connection = "None" THEN "None" ELSE "closed"
        /\ channels' = IF serial_manager = "mock" THEN InitChannels
                       ELSE NoDevice
        /\ last_update' = IF serial_manager = "mock" THEN now ELSE last_update
        /\ sent' = 0
        /\ last_op' = Op("SerialManager.connect", -1, FALSE, NoLine)
        /\ ret' = [result |-> opens]
        /\ UNCHANGED <<now, serial_manager, last_data, data, pid_system,
                       db, file>>

\* SerialManager.disconnect(): an open connection is closed and dropped and
\* the result is True; without one, or when close() of a real port raises,
\* the result is False.
ManagerDisconnect ==
    \E closes \in BOOLEAN :
        LET done == connection = "open" /\ closes
        IN  /\ AppRunning
            /\ serial_manager # "None"
            /\ (serial_manager = "mock" \/ connection # "open") => closes
            /\ connection' = IF done THEN "None" ELSE connection
            /\ channels' = IF done THEN NoDevice ELSE channels
            /\ last_op' = Op("SerialManager.disconnect", -1, FALSE, NoLine)
            /\ ret' = [result |-> done]
            /\ UNCHANGED <<now, serial_manager, last_update, last_data, data,
                           pid_system, sent, db, file>>

\* SerialManager.send_command(cmd) with a PID command for a channel.
SendCommand ==
    \E channel \in {NumChannels - 1} :
        \E cmd \in RawPidCommands(channel) :
            /\ AppRunning
            /\ serial_manager # "None"
            /\ sent < MaxCommands
            /\ sent' = IF CanSend(connection) THEN sent + 1 ELSE sent
            /\ channels' = IF serial_manager = "mock" /\ CanSend(connection)
                           THEN Write(channels, cmd)
                           ELSE channels
            /\ last_op' = Op("send_command", channel, FALSE, Sent(cmd))
            /\ ret' = [result |-> CanSend(connection)]
            /\ UNCHANGED <<now, serial_manager, connection, last_update,
                           last_data, data, pid_system, db, file>>

\* SerialManager.start_heating(channel) and stop_heating(channel): a HEAT
\* command for a channel in range, False for any other.
ManagerHeating ==
    \E channel \in {0, NumChannels}, heating \in BOOLEAN :
        LET sends == channel \in ChannelIds /\ CanSend(connection)
        IN  /\ AppRunning
            /\ serial_manager # "None"
            /\ sent < MaxCommands
            /\ sent' = IF sends THEN sent + 1 ELSE sent
            /\ channels' = IF serial_manager = "mock" /\ sends
                           THEN Write(channels, HeatCommand(channel, heating))
                           ELSE channels
            /\ last_op' = Op(IF heating THEN "SerialManager.start_heating"
                             ELSE "SerialManager.stop_heating",
                             channel, FALSE,
                             IF sends THEN Sent(HeatCommand(channel, heating))
                             ELSE NoLine)
            /\ ret' = [result |-> sends]
            /\ UNCHANGED <<now, serial_manager, connection, last_update,
                           last_data, data, pid_system, db, file>>

\* SerialManager.get_status(): "Device not connected" is raised without an
\* open connection; else one line is read and the snapshot returned.
ManagerGetStatus ==
    /\ AppRunning
    /\ serial_manager # "None"
    /\ IF ~Connected
       THEN /\ last_op' = Op("SerialManager.get_status", -1, TRUE, NoLine)
            /\ ret' = NoneVal
            /\ UNCHANGED <<channels, last_update, last_data>>
       ELSE LET dev == IF serial_manager = "mock"
                       THEN Readline(channels, last_update, now)
                       ELSE [line |-> EmptyLine, channels |-> channels,
                             last_update |-> last_update]
            IN  \E line \in (IF serial_manager = "mock" THEN {dev.line}
                             ELSE RealLines(now)) :
                    /\ channels' = dev.channels
                    /\ last_update' = dev.last_update
                    /\ last_data' = GetStatus(line, last_data, now)
                    /\ ret' = GetStatus(line, last_data, now)
                    /\ last_op' = Op("SerialManager.get_status", -1, FALSE,
                                     line)
    /\ UNCHANGED <<now, serial_manager, connection, data, pid_system, sent,
                   db, file>>

\* The methods class PIDAgent defines; a call of any other name on the agent
\* raises AttributeError.
PIDAgentMethods == {"log_data", "analyze_channel", "analyze_all_channels"}

\* DataLogger.clear_channel_data and DBlogger.clear_channel_data: False for
\* an id out of range, else the channel's samples or rows are deleted.
ClearSeries(d, channel) ==
    IF channel \in ChannelIds THEN [d EXCEPT ![channel] = <<>>] ELSE d

\* DELETE /channel/{channel_id}/data: without a logger the request is
\* refused; else the agent is called first, then the DBlogger, whose False
\* for an id out of range is answered by an error as well.
ClearChannelData ==
    \E channel_id \in 0 .. NumChannels :
        LET refused == serial_manager = "None"
            agent_raises == "clear_channel_data" \notin PIDAgentMethods
        IN  /\ AppRunning
            /\ data' = IF refused \/ agent_raises THEN data
                       ELSE ClearSeries(data, channel_id)
            /\ db' = IF refused \/ agent_raises \/ channel_id \notin ChannelIds
                     THEN db
                     ELSE DbDeleteChannel(db, channel_id)
            /\ last_op' = Op("clear_channel_data", channel_id,
                             refused \/ agent_raises
                                \/ channel_id \notin ChannelIds,
                             NoLine)
            /\ ret' = NoneVal
            /\ UNCHANGED <<now, serial_manager, connection, channels,
                           last_update, last_data, pid_system, sent, file>>

\* DELETE /data: without a logger the request is refused; else the table is
\* emptied first, and then the agent is called.
ClearAllData ==
    LET refused == serial_manager = "None"
        agent_raises == "clear_all_data" \notin PIDAgentMethods
    IN  /\ AppRunning
        /\ db' = IF refused THEN db ELSE {}
        /\ data' = IF refused \/ agent_raises THEN data ELSE EmptyLog
        /\ last_op' = Op("clear_all_data", -1, refused \/ agent_raises, NoLine)
        /\ ret' = NoneVal
        /\ UNCHANGED <<now, serial_manager, connection, channels,
                       last_update, last_data, pid_system, sent, file>>

(***************************************************************************)
(* MockPIDSystem (tests/mock_pid_system.py)                                *)
(***************************************************************************)
sample_time == 100        \* MockPIDSystem.sample_time, 0.1 s
time_constant == 5000     \* MockPIDSystem.time_constant, 5.0 s
max_power == 10000        \* MockPIDSystem.max_power, 100.0

\* self.disturbance: the dict of __init__ (dict is TRUE, `at` its values), or
\* the float 0.0 that set_heating assigns (dict is FALSE).
NewDisturbance == [dict |-> TRUE, at |-> [c \in ChannelIds |-> 0]]
FloatZero == [dict |-> FALSE, at |-> [c \in ChannelIds |-> 0]]

\* MockPIDSystem.__init__ at time t.
NewPIDChannel(t) ==
    [current_temp |-> 2500, target_temp |-> 2500, kp |-> 100, ki |-> 10,
     kd |-> 5, control_period |-> 100, max_duty |-> 100, heating |-> FALSE,
     last_error |-> 0, integral |-> 0, last_time |-> t, last_control_time |-> t]

NewPIDSystem ==
    [channels |-> [c \in ChannelIds |-> NewPIDChannel(StartTime)],
     disturbance |-> NewDisturbance]

\* "if dt < self.sample_time": the step comes too soon after the last sample.
TooSoonNever(dt) == FALSE

TooSoon(dt) == dt < sample_time

\* _calculate_next_temp(channel) at time t for a channel in range: whether it
\* raised, the temperature it returned and the channel record it left.  The
\* integral grows before the control period is looked at; indexing a
\* disturbance that is a float raises TypeError after last_control_time is set.
CalculateNextTemp(ch, disturbance, channel, t, noise) ==
    LET dt == t - ch.last_time
        error == ch.target_temp - ch.current_temp
        p_term == (ch.kp * error) \div 100
        integral == ch.integral + (error * dt) \div 1000
        i_term == (ch.ki * integral) \div 100
        d_term == IF dt > 0
                  THEN (ch.kd * (error - ch.last_error) * 10) \div dt
                  ELSE 0
        max_output == (max_power * ch.max_duty) \div 100
        output == NpClip(p_term + i_term + d_term, 0, max_output)
        temp_change == (((output * error) \div max_power
                         + disturbance.at[channel]) * dt) \div time_constant
    IN  IF TooSoon(dt)
        THEN [raised |-> FALSE, temp |-> ch.current_temp, ch |-> ch]
        ELSE IF ~ch.heating
        THEN [raised |-> FALSE,
              temp |-> ch.current_temp
                       - ((ch.current_temp - 2500) * dt) \div (10 * time_constant),
              ch |-> [ch EXCEPT !.last_time = t]]
        ELSE IF t - ch.last_control_time < ch.control_period
        THEN [raised |-> FALSE, temp |-> ch.current_temp,
              ch |-> [ch EXCEPT !.integral = integral]]
        ELSE IF ~disturbance.dict
        THEN [raised |-> TRUE, temp |-> ch.current_temp,
              ch |-> [ch EXCEPT !.integral = integral,
                                !.last_control_time = t]]
        ELSE [raised |-> FALSE,
              temp |-> ch.current_temp + temp_change + noise,
              ch |-> [ch EXCEPT !.integral = integral,
                                !.last_control_time = t,
                                !.last_error = error,
                                !.last_time = t]]

\* The entry get_current_state appends for channel i.  round(.., 2) leaves a
\* temperature in units of 1/100 as it is.
StateEntry(i, ch) ==
    [id |-> i, temperature |-> ch.current_temp,
     pid_params |-> [kp |-> ch.kp, ki |-> ch.ki, kd |-> ch.kd,
                     target_temp |-> ch.target_temp,
                     control_period |-> ch.control_period,
                     max_duty |-> ch.max_duty],
     heating |-> ch.heating]

\* The loop of get_current_state from channel i on: each channel is stepped
\* and its current_temp assigned; an exception ends the loop where it is.
RECURSIVE StepChannels(_, _, _, _, _)
StepChannels(sys, i, t, noise, entries) ==
    IF i = NumChannels
    THEN [system |-> sys, raised |-> FALSE, channels |-> entries]
    ELSE LET r == CalculateNextTemp(sys.channels[i], sys.disturbance, i, t,
                                    noise[i])
             ch2 == [r.ch EXCEPT !.current_temp = r.temp]
         IN  IF r.raised
             THEN [system |-> [sys EXCEPT !.channels[i] = r.ch],
                   raised |-> TRUE, channels |-> entries]
             ELSE StepChannels([sys EXCEPT !.channels[i] = ch2], i + 1, t,
                               noise, Append(entries, StateEntry(i, ch2)))

\* What reset() writes into a channel.
ResetChannel(ch) ==
    [ch EXCEPT !.current_temp = 2500, !.integral = 0, !.last_error = 0,
               !.heating = FALSE]

\* reset(channel): one channel in range, or else all of them in turn; with a
\* float disturbance the item assignment raises after the first channel is
\* written.
ResetSystem(sys, channel) ==
    IF channel \in ChannelIds
    THEN [system |-> [channels |-> [sys.channels EXCEPT
                                       ![channel] = ResetChannel(@)],
                      disturbance |-> IF sys.disturbance.dict
                                      THEN [sys.disturbance EXCEPT
                                               !.at[channel] = 0]
                                      ELSE sys.disturbance],
          raised |-> ~sys.disturbance.dict]
    ELSE IF sys.disturbance.dict
    THEN [system |-> [channels |-> [c \in ChannelIds |->
                                       ResetChannel(sys.channels[c])],
                      disturbance |-> NewDisturbance],
          raised |-> FALSE]
    ELSE [system |-> [sys EXCEPT !.channels[0] = ResetChannel(@)],
          raised |-> TRUE]

Noises == {0, 10}               \* draws of np.random.normal(0, 0.1)
Disturbances == {-50, 50}       \* draws of magnitude * np.random.randn()

Built == pid_system # NoDevice

\* update_params: nothing for a channel out of range; period and duty are
\* clipped, the gains and the target are stored as given.
UpdateParams ==
    \E channel \in 0 .. NumChannels, p \in PidInputs :
        /\ Built
        /\ sent < MaxCommands
        /\ sent' = sent + 1
        /\ pid_system' =
              IF channel \in ChannelIds
              THEN [pid_system EXCEPT !.channels[channel] =
                       [@ EXCEPT !.kp = p.kp, !.ki = p.ki, !.kd = p.kd,
                                 !.target_temp = p.target_temp,
                                 !.control_period =
                                     NpClip(IF p.control_period = <<>> THEN 100
                                            ELSE p.control_period[1], 10, 1000),
                                 !.max_duty =
                                     NpClip(IF p.max_duty = <<>> THEN 100
                                            ELSE p.max_duty[1], 0, 100)]]
              ELSE pid_system
        /\ last_op' = [Op("update_params", channel, FALSE, NoLine)
                          EXCEPT !.params = p]
        /\ ret' = NoneVal
        /\ UNCHANGED <<now, serial_manager, connection, channels, last_update,
                       last_data, data, db, file>>

\* set_heating: the flag of a channel in range, and in every case the
\* disturbance dict is replaced by the float 0.0.
SetHeating ==
    \E channel \in 0 .. NumChannels, heating \in BOOLEAN :
        /\ Built
        /\ sent < MaxCommands
        /\ sent' = sent + 1
        /\ pid_system' =
              [channels |-> IF channel \in ChannelIds
                            THEN [pid_system.channels EXCEPT
                                     ![channel].heating = heating]
                            ELSE pid_system.channels,
               disturbance |-> FloatZero]
        /\ last_op' = Op(IF heating THEN "set_heating_on" ELSE "set_heating_off",
                         channel, FALSE, NoLine)
        /\ ret' = NoneVal
        /\ UNCHANGED <<now, serial_manager, connection, channels, last_update,
                       last_data, data, db, file>>

\* add_disturbance: a random value for a channel in range; the item
\* assignment raises TypeError when the disturbance is a float.
AddDisturbance ==
    \E channel \in 0 .. NumChannels, value \in Disturbances :
        /\ Built
        /\ sent < MaxCommands
        /\ sent' = sent + 1
        /\ pid_system' =
              IF channel \in ChannelIds /\ pid_system.disturbance.dict
              THEN [pid_system EXCEPT !.disturbance.at[channel] = value]
              ELSE pid_system
        /\ last_op' = Op("add_disturbance", channel,
                         channel \in ChannelIds /\ ~pid_system.disturbance.dict,
                         NoLine)
        /\ ret' = NoneVal
        /\ UNCHANGED <<now, serial_manager, connection, channels, last_update,
                       last_data, data, db, file>>

\* MockPIDSystem.reset(channel); -1 stands for None.
PidReset ==
    \E channel \in -1 .. NumChannels :
        /\ Built
        /\ sent < MaxCommands
        /\ sent' = sent + 1
        /\ pid_system' = ResetSystem(pid_system, channel).system
        /\ last_op' = Op("pid_reset", channel,
                         ResetSystem(pid_system, channel).raised, NoLine)
        /\ ret' = NoneVal
        /\ UNCHANGED <<now, serial_manager, connection, channels, last_update,
                       last_data, data, db, file>>

\* get_current_state: every channel is stepped, then the snapshot is built;
\* datetime.now().isoformat() keeps the clock's value.
GetCurrentState ==
    \E noise \in [ChannelIds -> Noises] :
        LET r == StepChannels(pid_system, 0, now, noise, <<>>)
        IN  /\ Built
            /\ sent < MaxCalls
            /\ sent' = sent + 1
            /\ pid_system' = r.system
            /\ last_op' = [Op("get_current_state", -1, r.raised, NoLine)
                              EXCEPT !.params = [noise |-> noise]]
            /\ ret' = IF r.raised THEN NoneVal
                      ELSE [channels |-> r.channels, timestamp |-> now,
                            status |-> "running"]
            /\ UNCHANGED <<now, serial_manager, connection, channels,
                           last_update, last_data, data, db, file>>

\* PID commands of the test harness, "PID:<channel>,<kp>,<ki>,<kd>,<target>",
\* as text of any content: a well-formed one, one with two values, one whose
\* target is a word, and one in the six-field form.
RawTestCommands(channel) ==
    { [type |-> "PID",
       rest |-> << <<IntTok(channel), FloatTok(200), FloatTok(15), FloatTok(5),
                     FloatTok(5000)>> >>],
      [type |-> "PID",
       rest |-> << <<IntTok(channel), FloatTok(300), FloatTok(20)>> >>],
      [type |-> "PID",
       rest |-> << <<IntTok(channel), FloatTok(300), FloatTok(20), FloatTok(10),
                     WordTok>> >>],
      [type |-> "PID",
       rest |-> << <<IntTok(channel), FloatTok(300), FloatTok(20), FloatTok(10),
                     FloatTok(6000), IntTok(200), IntTok(60)>> >>] }

\* int(params[0]) and "kp, ki, kd, target = map(float, params[1:])": the
\* channel converts and exactly four values follow, all of which convert.
TestParamsOk(params) ==
    /\ Len(params) = 5
    /\ params[1].kind = "int"
    /\ \A i \in 2 .. 5 : CanFloat(params[i])

\* MockSerial.write of the test harness, open, with a PID command: the
\* values are converted and update_params is called with the defaults for
\* period and duty; any exception is caught and 0 returned.
TestSerialWrite ==
    \E channel \in ChannelIds :
        \E cmd \in RawTestCommands(channel) :
            LET params == cmd.rest[1]
            IN  /\ Built
                /\ sent < MaxCommands
                /\ sent' = sent + 1
                /\ pid_system' =
                      IF TestParamsOk(params)
                      THEN [pid_system EXCEPT !.channels[channel] =
                               [@ EXCEPT !.kp = ParseFloat(params[2]),
                                         !.ki = ParseFloat(params[3]),
                                         !.kd = ParseFloat(params[4]),
                                         !.target_temp = ParseFloat(params[5]),
                                         !.control_period = NpClip(100, 10, 1000),
                                         !.max_duty = NpClip(100, 0, 100)]]
                      ELSE pid_system
                /\ last_op' = Op("MockSerial.write", channel, FALSE, Sent(cmd))
                /\ ret' = [result |-> TestParamsOk(params)]
                /\ UNCHANGED <<now, serial_manager, connection, channels,
                               last_update, last_data, data, db, file>>

(***************************************************************************)
(* PIDOptimizer (core/utils/pid_optimizer.py)                              *)
(***************************************************************************)
\* The values of a decoded advisor response: a number (in units of 1/100),
\* NaN (json.loads reads the literal NaN as a float), true, or a text.
Num(n) == [kind |-> "number", val |-> n]
NaN == [kind |-> "nan", val |-> 0]
JsonTrue == [kind |-> "bool", val |-> 1]
Str(text) == [kind |-> "string", text |-> text]

\* isinstance(v, (int, float)): a bool is an int, NaN is a float.
IsIntOrFloat(v) == v.kind \in {"number", "nan", "bool"}

\* float(v) of a value that passed the isinstance test.
Float(v) == IF v.kind = "bool" THEN Num(100 * v.val) ELSE v

\* np.clip(float, lo, hi): NaN stays NaN.
NpClipFloat(v, lo, hi) ==
    IF v.kind = "nan" THEN v ELSE Num(NpClip(v.val, lo, hi))

\* DataLogger.get_channel_data(channel, hours) at time t: nothing for a
\* channel out of range, else the rows not older than the cutoff.
GetChannelData(d, channel, hours, t) ==
    IF channel \notin ChannelIds THEN <<>>
    ELSE IF hours = <<>> THEN d[channel]
    ELSE SelectSeq(d[channel],
                   LAMBDA row : row.timestamp >= t - hours[1] * 3600000)

\* The result for a channel without data (lines 56-62).
NoDataResult ==
    [kp |-> Num(100), ki |-> Num(10), kd |-> Num(5),
     explanation |-> Str("no data")]

\* The result of the except branch (lines 124-131): the gains of the last
\* row, and the fixed text.
FallbackResult(current_state) ==
    [kp |-> Num(current_state.kp), ki |-> Num(current_state.ki),
     kd |-> Num(current_state.kd),
     explanation |-> Str("optimization failed")]

\* The checks of lines 104-117 on a decoded response.
required_fields == {"kp", "ki", "kd", "explanation"}

Valid(result) ==
    /\ required_fields \subseteq DOMAIN result
    /\ IsIntOrFloat(result.kp)
    /\ IsIntOrFloat(result.ki)
    /\ IsIntOrFloat(result.kd)
    /\ result.explanation.kind = "string"

\* Lines 99-131: the response content is decoded, checked and clipped; any
\* exception gives the fallback result.
ParseResponse(content, current_state) ==
    IF JsonLoads(content).ok /\ Valid(JsonLoads(content).obj)
    THEN LET result == JsonLoads(content).obj
         IN  [result EXCEPT !.kp = NpClipFloat(Float(result.kp), 10, 10000),
                            !.ki = NpClipFloat(Float(result.ki), 0, 1000),
                            !.kd = NpClipFloat(Float(result.kd), 0, 1000)]
    ELSE FallbackResult(current_state)

\* An optimizer that writes the gains it returns into the device's channel.
AfterOptimizeApplies(chs, channel, result) ==
    IF chs # NoDevice /\ channel \in DOMAIN chs /\ result.kp.kind = "number"
    THEN [chs EXCEPT ![channel].kp = result.kp.val]
    ELSE chs

\* The device's channels after optimize_params: the method reads the store
\* and calls the advisor, and writes to no device.
AfterOptimize(chs, channel, result) == chs

\* What self.llm.invoke can do: raise, or return a response with a content.
AdvisorRaises == [kind |-> "raises"]
AdvisorObjects ==
    { [kp |-> Num(20000), ki |-> Num(-100), kd |-> Num(5), explanation |-> Str("advice")],
      [kp |-> Num(200), ki |-> Num(15), explanation |-> Str("advice")],
      [kp |-> Str("high"), ki |-> Num(15), kd |-> Num(5), explanation |-> Str("advice")],
      [kp |-> Num(200), ki |-> Num(15), kd |-> Num(5), explanation |-> Num(1)],
      [kp |-> NaN, ki |-> JsonTrue, kd |-> Num(5), explanation |-> Str("advice")] }
AdvisorOutcomes ==
    {AdvisorRaises, GarbageLine} \cup {JsonDumps(obj) : obj \in AdvisorObjects}

HoursInputs == {<<0>>, <<1>>}   \* hours: 0, or 1 as by default
OptChannels == {NumChannels - 1}   \* channel: the last one

\* PIDOptimizer.optimize_params(channel, data_logger, hours) on the agent's
\* store.  The advisor is called outside the try block, so an exception of
\* the call leaves the method.
OptimizeParams ==
    \E channel \in OptChannels, hours \in HoursInputs :
        LET df == GetChannelData(data, channel, hours, now)
            current_state == df[Len(df)]
        IN  /\ AppRunning
            /\ IF df = <<>>
               THEN /\ ret' = NoDataResult
                    /\ last_op' = [Op("optimize_params", channel, FALSE, NoLine)
                                      EXCEPT !.params = [hours |-> hours]]
                    /\ channels' = channels
               ELSE \E response \in AdvisorOutcomes :
                        /\ ret' = IF response = AdvisorRaises THEN NoneVal
                                  ELSE ParseResponse(response, current_state)
                        /\ last_op' = [Op("optimize_params", channel,
                                          response = AdvisorRaises, response)
                                          EXCEPT !.params = [hours |-> hours]]
                        /\ channels' = IF response = AdvisorRaises THEN channels
                                       ELSE AfterOptimize(channels, channel,
                                              ParseResponse(response, current_state))
            /\ UNCHANGED <<now, serial_manager, connection, last_update,
                           last_data, data, pid_system, sent, db, file>>

(***************************************************************************)
(* DataLogger used on its own: log_data, get_channel_metrics, save_to_file *)
(***************************************************************************)
MaxSeries == 3     \* log_data is called while a series holds fewer samples

\* The temperatures of the snapshots given to log_data: below, at and above
\* the default target 25.0.
Temps == {2400, 2500, 3000}

\* A snapshot of all channels at one temperature, stamped isoformat() of the
\* clock.
StoreSnapshot(t, temp) ==
    [timestamp |-> t,
     channels |-> [i \in 1 .. NumChannels |->
                      ChannelData(i - 1, [NewChannel EXCEPT !.temperature = temp])],
     status |-> "running"]

\* Series.max(), Series.min() and the first label of an index.
Max(S) == CHOOSE x \in S : \A y \in S : y <= x
Min(S) == CHOOSE x \in S : \A y \in S : x <= y

\* An index[0] that takes the last label.
LastLabel(S) == Max(S)

\* index[0]: the first of the rows that passed the filter.
FirstLabel(S) == Min(S)

\* Python's None or a value, as the empty or a one-element sequence.
Some(v) == <<v>>
None == <<>>

\* df['temperature'] as the set of its values.
Temperatures(df) == {df[i].temperature : i \in 1 .. Len(df)}

\* The rows at or above min + tenths/10 * range, by position: t_10 is
\* min + 0.1 * temp_range and t_90 is min + 0.9 * temp_range.  Temperatures
\* are in 1/100 degree, so the comparison is multiplied out.
RowsAtOrAbove(df, tenths) ==
    {i \in 1 .. Len(df) :
        10 * df[i].temperature >=
            10 * Min(Temperatures(df))
            + tenths * (Max(Temperatures(df)) - Min(Temperatures(df)))}

\* steady_mask: the rows within target -+ 0.02 * target, by position.
RowsInBand(df, target_temp) ==
    {i \in 1 .. Len(df) :
        /\ 50 * df[i].temperature >= 49 * target_temp
        /\ 50 * df[i].temperature <= 51 * target_temp}

\* get_channel_metrics on the window df.  Times are in ms and overshoot is
\* in 1/100 percent.  The standard deviation is left out of the record.
ChannelMetrics(df) ==
    IF df = <<>>
    THEN [rise_time |-> None, settling_time |-> None, overshoot |-> None,
          steady_state_error |-> None]
    ELSE
      LET target_temp == df[Len(df)].target_temp
          max_temp == Max(Temperatures(df))
          last10 == SubSeq(df, IF Len(df) > 10 THEN Len(df) - 9 ELSE 1, Len(df))
          RECURSIVE Sum(_)
          Sum(rows) == IF rows = <<>> THEN 0
                       ELSE Head(rows).temperature + Sum(Tail(rows))
      IN  [rise_time |->
               IF RowsAtOrAbove(df, 1) = {} \/ RowsAtOrAbove(df, 9) = {}
               THEN None
               ELSE Some(df[FirstLabel(RowsAtOrAbove(df, 9))].timestamp
                         - df[FirstLabel(RowsAtOrAbove(df, 1))].timestamp),
           settling_time |->
               IF RowsInBand(df, target_temp) = {} THEN None
               ELSE Some(df[FirstLabel(RowsInBand(df, target_temp))].timestamp
                         - df[1].timestamp),
           overshoot |->
               IF target_temp # 0
               THEN Some(((max_temp - target_temp) * 10000) \div target_temp)
               ELSE None,
           steady_state_error |->
               Some(target_temp - Sum(last10) \div Len(last10))]

\* save_to_file: ".json" dumps the store; ".csv" writes the key "channel"
\* into every stored record on its way to the table; any other name raises
\* ValueError.  The text written is a function of the store.
SaveCsv(d) ==
    [c \in DOMAIN d |->
        [i \in 1 .. Len(d[c]) |-> ("channel" :> c) @@ d[c][i]]]

FileFormats == {"json", "csv", "txt"}

StoreAlone == AppRunning /\ serial_manager = "None"

\* DataLogger.log_data(snapshot), called with a snapshot of the moment, one
\* snapshot per instant of the clock, on a store that holds the keys it was
\* constructed with.
LogDataCall ==
    \E temp \in Temps :
        /\ StoreAlone
        /\ DOMAIN data = ChannelIds
        /\ \A c \in ChannelIds :
              /\ Len(data[c]) < MaxSeries
              /\ data[c] # <<>> => data[c][Len(data[c])].timestamp < now
        /\ data' = LogData(data, StoreSnapshot(now, temp), now)
        /\ last_op' = Op("log_data", -1, FALSE,
                         JsonDumps(StoreSnapshot(now, temp)))
        /\ ret' = NoneVal
        /\ UNCHANGED <<now, serial_manager, connection, channels, last_update,
                       last_data, pid_system, sent, db, file>>

\* DataLogger.get_channel_metrics(channel, hours).
GetChannelMetrics ==
    \E channel \in ChannelIds, hours \in {<<>>, <<0>>} :
        /\ StoreAlone
        /\ ret' = ChannelMetrics(GetChannelData(data, channel, hours, now))
        /\ last_op' = [Op("get_channel_metrics", channel, FALSE, NoLine)
                          EXCEPT !.params = [hours |-> hours]]
        /\ UNCHANGED <<now, serial_manager, connection, channels, last_update,
                       last_data, data, pid_system, sent, db, file>>

\* json.dump writes every key of a dict as text and json.load returns the
\* keys as text: the key c comes back as str(c), which is another key of a
\* dict than c.  The key str(c) is kept as the number -(c + 1), apart from
\* every channel id.
StrKey(c) == -(c + 1)

\* int(k) of a key that is text.
KeyInt(k) == -(k + 1)

\* json.dump(self.data, f): an object with the keys as text.  A key c that
\* was added beside a key str(c) is written after it, and a reader keeps the
\* last of two equal keys.
JsonDump(d) ==
    [k \in {IF j >= 0 THEN StrKey(j) ELSE j : j \in DOMAIN d} |->
        IF KeyInt(k) \in DOMAIN d THEN d[KeyInt(k)] ELSE d[k]]

\* json.load(f): the object as a dict; its keys stay text.
JsonLoad(text) == text

\* The series under a key, empty for a key the store lacks.
RowsOf(d, k) == IF k \in DOMAIN d THEN d[k] ELSE <<>>

\* to_csv of the rows of save_to_file, in the order of the dict: the column
\* "channel" reads back as a number whatever key wrote it, so the table is
\* kept as the rows per channel number.
ToCsv(d) ==
    [c \in ChannelIds |-> RowsOf(SaveCsv(d), StrKey(c)) \o RowsOf(SaveCsv(d), c)]

\* load_from_file, ".csv": a list per channel, every row without its column
\* "channel".
FromCsv(text) ==
    [c \in ChannelIds |->
        [i \in 1 .. Len(text[c]) |->
            [f \in DOMAIN text[c][i] \ {"channel"} |-> text[c][i][f]]]]

\* DataLogger.save_to_file(filename).
SaveToFile ==
    \E format \in FileFormats :
        /\ StoreAlone
        /\ data' = IF format = "csv" THEN SaveCsv(data) ELSE data
        /\ file' = IF format = "json"
                   THEN [format |-> "json", text |-> JsonDump(data)]
                   ELSE IF format = "csv"
                   THEN [format |-> "csv", text |-> ToCsv(data)]
                   ELSE file
        /\ last_op' = [Op("save_to_file", -1, format = "txt", NoLine)
                          EXCEPT !.params = [format |-> format]]
        /\ ret' = NoneVal
        /\ UNCHANGED <<now, serial_manager, connection, channels, last_update,
                       last_data, pid_system, sent, db>>

\* DataLogger.load_from_file(filename) of the file last saved: a name that is
\* neither .json nor .csv raises ValueError, a file that does not exist
\* raises in open or read_csv, and read_csv raises on a table without rows;
\* self.data is assigned after the file was read.
LoadFromFile ==
    \E format \in FileFormats :
        LET empty == format = "csv" /\ file.format = "csv"
                     /\ \A c \in ChannelIds : file.text[c] = <<>>
            raised == format = "txt" \/ file.format # format \/ empty
        IN  /\ StoreAlone
            /\ data' = IF raised THEN data
                       ELSE IF format = "json" THEN JsonLoad(file.text)
                       ELSE FromCsv(file.text)
            /\ last_op' = [Op("load_from_file", -1, raised, NoLine)
                              EXCEPT !.params = [format |-> format]]
            /\ ret' = NoneVal
            /\ UNCHANGED <<now, serial_manager, connection, channels,
                           last_update, last_data, pid_system, sent, db, file>>

\* DataLogger.get_channel_data(channel, None): an empty frame for an id out
\* of range; else self.data[channel], which raises KeyError for a key that
\* the dict lacks.
GetChannelDataCall ==
    \E channel \in 0 .. NumChannels :
        LET raised == channel \in ChannelIds /\ channel \notin DOMAIN data
        IN  /\ StoreAlone
            /\ ret' = IF raised THEN NoneVal
                      ELSE [rows |-> GetChannelData(data, channel, <<>>, now)]
            /\ last_op' = Op("get_channel_data", channel, raised, NoLine)
            /\ UNCHANGED <<now, serial_manager, connection, channels,
                           last_update, last_data, data, pid_system, sent,
                           db, file>>

\* DataLogger.clear_channel_data(channel): False for an id out of range;
\* else self.data[channel] = [], which adds the key when the dict lacks it.
LoggerClearChannelData ==
    \E channel \in 0 .. NumChannels :
        /\ StoreAlone
        /\ data' = IF channel \in ChannelIds
                   THEN (channel :> <<>>) @@ data ELSE data
        /\ ret' = [result |-> channel \in ChannelIds]
        /\ last_op' = Op("DataLogger.clear_channel_data", channel, FALSE,
                         NoLine)
        /\ UNCHANGED <<now, serial_manager, connection, channels, last_update,
                       last_data, pid_system, sent, db, file>>

Init ==
    /\ now = StartTime
    /\ serial_manager = "None"
    /\ connection = "None"
    /\ channels = NoDevice
    /\ last_update = StartTime
    /\ last_data = NoneVal
    /\ data = EmptyLog
    /\ pid_system \in {NoDevice, NewPIDSystem}
    /\ sent = 0
    /\ last_op = Op("init", -1, FALSE, NoLine)
    /\ ret = NoneVal
    /\ db = {}
    /\ file = NoFile

Next ==
    \/ ConnectDevice
    \/ DisconnectDevice
    \/ AdvanceTime
    \/ GetDeviceStatus
    \/ UpdateChannelPid
    \/ ControlChannel
    \/ Reset
    \/ UpdateParams
    \/ SetHeating
    \/ AddDisturbance
    \/ PidReset
    \/ GetCurrentState

Spec == Init /\ [][Next]_vars

\* The optimizer at work on the store that the polls of a device fill.
NextOpt ==
    \/ ConnectDevice
    \/ AdvanceTime
    \/ GetDeviceStatus
    \/ UpdateChannelPid
    \/ OptimizeParams

SpecOpt == Init /\ [][NextOpt]_vars

\* A DataLogger that a caller fills and reads directly.
NextStore ==
    \/ AdvanceTime
    \/ LogDataCall
    \/ GetChannelMetrics

SpecStore == Init /\ [][NextStore]_vars

\* A DataLogger that a caller fills and saves to files.
NextSave ==
    \/ AdvanceTime
    \/ LogDataCall
    \/ SaveToFile

SpecSave == Init /\ [][NextSave]_vars

\* A DataLogger that a caller fills at one instant, saves to a file, loads
\* from it and then reads and clears.
NextFile ==
    \/ LogDataCall
    \/ SaveToFile
    \/ LoadFromFile
    \/ GetChannelDataCall
    \/ LoggerClearChannelData

SpecFile == Init /\ [][NextFile]_vars

\* The router's connections, status reads and clear requests.
NextClear ==
    \/ ConnectDevice
    \/ DisconnectDevice
    \/ AdvanceTime
    \/ GetDeviceStatus
    \/ ClearChannelData
    \/ ClearAllData

SpecClear == Init /\ [][NextClear]_vars

\* A SerialManager that a caller builds and uses directly; the MockSerial of
\* the test harness written to directly.
NextManager ==
    \/ NewManager
    \/ ManagerConnect
    \/ ManagerDisconnect
    \/ AdvanceTime
    \/ SendCommand
    \/ ManagerHeating
    \/ SetPidParams
    \/ ManagerGetStatus
    \/ TestSerialWrite

SpecManager == Init /\ [][NextManager]_vars

(***************************************************************************)
(* Properties of the serial device, the manager and the store              *)
(***************************************************************************)
\* The step is a call of operation `name` (time does not pass inside a call).
OpStep(name) == last_op'.op = name /\ now' = now

\* The snapshot entry of channel id in a returned snapshot, as a set.
Entries(snapshot, id) ==
    {snapshot.channels[i] : i \in {j \in 1 .. Len(snapshot.channels) :
                                       snapshot.channels[j].id = id}}

\* C1: when get_status reads a well-formed JSON line that has no "channels"
\* key while a snapshot of all channels is held, it returns the held snapshot
\* and last_data stays that snapshot.
C1_MissingChannelsKeepsSnapshot ==
    [][(/\ OpStep("get_status")
        /\ "channels" \in DOMAIN last_data
        /\ Len(last_data.channels) = NumChannels
        /\ last_op'.line.kind = "json"
        /\ "channels" \notin DOMAIN last_op'.line.obj)
       => (ret' = last_data /\ last_data' = last_data)]_vars

\* C2: once last_data holds a snapshot, a get_status on a connected manager
\* that reads no line, or a line that is no JSON, does not raise, returns
\* the held snapshot and leaves last_data as it is.
C2_DecodeErrorKeepsLastSnapshot ==
    [][(/\ OpStep("get_status")
        /\ last_data # NoneVal
        /\ last_op'.line.kind \in {"empty", "garbage"})
       => (/\ ~last_op'.raised
           /\ ret' = last_data
           /\ last_data' = last_data)]_vars

\* A read of a garbage line that returned the held snapshot of all channels,
\* with the store filled.
C2_Witness ==
    /\ last_op.op = "get_status"
    /\ last_op.line.kind = "garbage"
    /\ ret = last_data
    /\ "channels" \in DOMAIN ret
    /\ Len(ret.channels) = NumChannels
    /\ Len(data[0]) = MaxLog

\* C3: in every channel's series the timestamps are strictly increasing.
C3_TimestampsStrictlyIncreasing ==
    \A c \in ChannelIds :
        \A i \in 1 .. (Len(data[c]) - 1) :
            data[c][i].timestamp < data[c][i + 1].timestamp

\* The documented defaults of a channel, as a snapshot entry.
DocumentedDefaults(id) ==
    [id |-> id, temperature |-> 2500,
     pid_params |-> [kp |-> 100, ki |-> 10, kd |-> 5, target_temp |-> 2500,
                     control_period |-> 100, max_duty |-> 100],
     heating |-> FALSE]

\* C4: a status read that follows a reset and gets a fresh line reports the
\* documented defaults for every channel in range.
C4_ResetThenStatusReportsDefaults ==
    [][(/\ last_op.op = "reset"
        /\ ~last_op.raised
        /\ OpStep("get_status")
        /\ last_op'.line.kind = "json")
       => \A id \in ChannelIds : Entries(ret', id) = {DocumentedDefaults(id)}]_vars

Clamp(v, lo, hi) == IF v < lo THEN lo ELSE IF v > hi THEN hi ELSE v

\* C5: a status read that follows a complete set-gains request for a channel
\* of the simulated device and gets a fresh line reports, for that channel,
\* kp clamped to [0.1, 100.0], ki to [0.0, 10.0] and kd to [0.0, 10.0].
C5_SetGainsReportsClamped ==
    [][(/\ last_op.op = "update_channel_pid"
        /\ last_op.params.control_period # <<>>
        /\ last_op.params.max_duty # <<>>
        /\ serial_manager = "mock"
        /\ OpStep("get_status")
        /\ last_op'.line.kind = "json")
       => \A e \in Entries(ret', last_op.channel) :
              /\ e.pid_params.kp = Clamp(last_op.params.kp, 10, 10000)
              /\ e.pid_params.ki = Clamp(last_op.params.ki, 0, 1000)
              /\ e.pid_params.kd = Clamp(last_op.params.kd, 0, 1000)]_vars

(***************************************************************************)
(* Properties of the optimizer                                             *)
(***************************************************************************)
\* The advisor responses that are failures: the call failed, the content is
\* no JSON, a field is missing, a gain is no number or the explanation no text.
AdvisorFailure(response) ==
    \/ response.kind \in {"raises", "garbage"}
    \/ /\ response.kind = "json"
       /\ \/ ~(required_fields \subseteq DOMAIN response.obj)
          \/ \E f \in {"kp", "ki", "kd"} :
                 response.obj[f].kind \notin {"number", "nan"}
          \/ response.obj.explanation.kind # "string"

\* The last row that optimize_params saw in the call that this step makes.
CurrentRow ==
    LET df == GetChannelData(data, last_op'.channel, last_op'.params.hours, now)
    IN  df[Len(df)]

\* C6: for a channel that has data, optimize_params returns the current gains
\* with the fixed failure explanation in every failure case of the advisor,
\* and no exception reaches the caller.
C6_FailureGivesFallback ==
    [][(/\ OpStep("optimize_params")
        /\ last_op'.line # NoLine
        /\ AdvisorFailure(last_op'.line))
       => (/\ ~last_op'.raised
           /\ ret' = [kp |-> Num(CurrentRow.kp), ki |-> Num(CurrentRow.ki),
                      kd |-> Num(CurrentRow.kd),
                      explanation |-> Str("optimization failed")])]_vars

\* C7: when optimize_params accepts a response, the gains it returns are the
\* advisor's values clamped to [0.1, 100.0], [0.0, 10.0] and [0.0, 10.0].
C7_AcceptedGainsClamped ==
    [][(/\ OpStep("optimize_params")
        /\ last_op'.line.kind = "json"
        /\ Valid(last_op'.line.obj))
       => LET advice == last_op'.line.obj
          IN  /\ ret'.kp.kind = "number"
              /\ ret'.ki.kind = "number"
              /\ ret'.kd.kind = "number"
              /\ ret'.kp.val = Clamp(Float(advice.kp).val, 10, 10000)
              /\ ret'.ki.val = Clamp(Float(advice.ki).val, 0, 1000)
              /\ ret'.kd.val = Clamp(Float(advice.kd).val, 0, 1000)]_vars

\* C8: an optimize call that ends in the fallback result changes no channel:
\* the device's channels and the simulator's are as they were before the call.
C8_FallbackLeavesChannelsUnchanged ==
    [][(/\ OpStep("optimize_params")
        /\ ~last_op'.raised
        /\ ret'.explanation = Str("optimization failed"))
       => (channels' = channels /\ pid_system' = pid_system)]_vars

\* An optimize call ended in the fallback result for a channel whose gain on
\* the device differs from the gain the call returned.
C8_Witness ==
    /\ last_op.op = "optimize_params"
    /\ ~last_op.raised
    /\ ret.explanation = Str("optimization failed")
    /\ channels # NoDevice
    /\ channels[last_op.channel].kp # ret.kp.val

(***************************************************************************)
(* Properties of the simulators                                            *)
(***************************************************************************)
\* C9: a step of a channel less than sample_time after its last sample
\* returns the current temperature and leaves the channel's record as it is;
\* a read of the simulated serial device less than update_interval after its
\* last update gives no line and leaves its channels as they are.
C9_TooSoonIsNoOp ==
    [][/\ OpStep("get_current_state") =>
            \A c \in ChannelIds :
                now - pid_system.channels[c].last_time < sample_time =>
                    /\ pid_system'.channels[c] = pid_system.channels[c]
                    /\ ~last_op'.raised =>
                         ret'.channels[c + 1].temperature
                             = pid_system.channels[c].current_temp
       /\ (OpStep("get_status") /\ serial_manager = "mock"
             /\ now - last_update < update_interval) =>
            /\ last_op'.line = EmptyLine
            /\ channels' = channels
            /\ last_update' = last_update]_vars

\* A heating channel was stepped 50 ms after its last sample, and the call
\* returned its temperature.
C9_Witness ==
    /\ last_op.op = "get_current_state"
    /\ ~last_op.raised
    /\ \E c \in ChannelIds :
           /\ pid_system.channels[c].heating
           /\ pid_system.channels[c].target_temp > 2500
           /\ now - pid_system.channels[c].last_time = 50
           /\ ret.channels[c + 1].temperature = pid_system.channels[c].current_temp

\* C10: with heating on, target 50, a temperature from ambient 25 up to the
\* target, no disturbance and no noise, a step at which the sample time and
\* the control period have elapsed raises the temperature and does not take
\* it past the target.
C10_ControlTickApproachesTarget ==
    [][\A c \in ChannelIds :
          (/\ OpStep("get_current_state")
           /\ pid_system.channels[c].heating
           /\ pid_system.channels[c].target_temp = 5000
           /\ pid_system.channels[c].current_temp >= 2500
           /\ pid_system.channels[c].current_temp < 5000
           /\ pid_system.disturbance.at[c] = 0
           /\ last_op'.params.noise[c] = 0
           /\ now - pid_system.channels[c].last_time >= sample_time
           /\ now - pid_system.channels[c].last_control_time
                  >= pid_system.channels[c].control_period)
          => (/\ pid_system'.channels[c].current_temp
                     > pid_system.channels[c].current_temp
              /\ pid_system'.channels[c].current_temp <= 5000)]_vars

(***************************************************************************)
(* Properties of the commands and of the channels                          *)
(***************************************************************************)
\* The text PID:<channel>:<kp>,<ki>,<kd>,<target_temp>,<period>,<duty>.
SetGainsForm(cmd) ==
    /\ cmd.type = "PID"
    /\ Len(cmd.rest) = 2
    /\ Len(cmd.rest[1]) = 1
    /\ cmd.rest[1][1].kind = "int"
    /\ Len(cmd.rest[2]) = 6
    /\ \A i \in 1 .. 4 : cmd.rest[2][i].kind \in {"int", "float"}
    /\ \A i \in 5 .. 6 : cmd.rest[2][i].kind = "int"

\* C14: every set-gains command that is sent has the documented form, and on
\* the simulated device it sets the six parameters of the addressed channel
\* in range to the values sent and nothing else of that channel.
C14_SetGainsCommandFormAndEffect ==
    [][(/\ last_op'.op \in {"update_channel_pid", "set_pid_params"}
        /\ now' = now
        /\ last_op'.line.kind = "command")
       => LET cmd == last_op'.line.cmd
              c == last_op'.channel
          IN  /\ SetGainsForm(cmd)
              /\ (serial_manager = "mock" /\ c \in ChannelIds) =>
                    channels'[c] =
                        [channels[c] EXCEPT
                            !.kp = ParseFloat(cmd.rest[2][1]),
                            !.ki = ParseFloat(cmd.rest[2][2]),
                            !.kd = ParseFloat(cmd.rest[2][3]),
                            !.target_temp = ParseFloat(cmd.rest[2][4]),
                            !.control_period = cmd.rest[2][5].val,
                            !.max_duty = cmd.rest[2][6].val]]_vars

\* C16: the simulated device holds exactly the channels 0 .. N-1.
C16_ChannelSetFixed ==
    channels # NoDevice => DOMAIN channels = ChannelIds

\* C17: every channel of the simulated device and of the simulator has its
\* control_period in [10, 1000] and its max_duty in [0, 100].
C17_PeriodAndDutyInBounds ==
    /\ channels # NoDevice =>
           \A c \in DOMAIN channels :
               /\ channels[c].control_period \in 10 .. 1000
               /\ channels[c].max_duty \in 0 .. 100
    /\ pid_system # NoDevice =>
           \A c \in ChannelIds :
               /\ pid_system.channels[c].control_period \in 10 .. 1000
               /\ pid_system.channels[c].max_duty \in 0 .. 100

\* The operations of the simulator and of the store that name a channel.
ChannelOps ==
    {"update_params", "set_heating_on", "set_heating_off", "add_disturbance",
     "pid_reset", "log_data"}

\* C15: a store or simulator operation given a channel id outside [0, N)
\* reports it (an exception or a failure result) and changes no state.
C15_OutOfRangeReportedAndIgnored ==
    [][(/\ last_op'.op \in ChannelOps
        /\ now' = now
        /\ last_op'.channel \notin ChannelIds
        /\ last_op'.channel # -1)
       => (/\ last_op'.raised \/ ret' = [result |-> FALSE]
           /\ pid_system' = pid_system
           /\ data' = data)]_vars

\* The step is a call of get_current_state in which channel c, heating, went
\* through a whole control tick.
ControlTick(c) ==
    /\ OpStep("get_current_state")
    /\ pid_system.channels[c].heating
    /\ now - pid_system.channels[c].last_time >= sample_time
    /\ now - pid_system.channels[c].last_control_time
           >= pid_system.channels[c].control_period
    /\ pid_system'.channels[c].last_time = now

\* C20: a disturbance of a channel lasts until one control tick of the
\* channel has used it: only that tick or a reset takes it back to zero, and
\* after the tick it is zero.
C20_DisturbanceOneShot ==
    [][pid_system # NoDevice =>
          \A c \in ChannelIds :
              /\ (/\ pid_system.disturbance.at[c] # 0
                  /\ pid_system'.disturbance.at[c] = 0)
                     => (ControlTick(c) \/ OpStep("pid_reset"))
              /\ ControlTick(c) => pid_system'.disturbance.at[c] = 0]_vars

\* The window a get_channel_metrics call has just read.
MetricsWindow ==
    GetChannelData(data, last_op.channel, last_op.params.hours, now)

\* C11: on a non-empty window with a non-zero target, overshoot is 0 when
\* the window's maximum is at or below the target and
\* (max - target) / target * 100 when it is above; with a positive target
\* it is never negative.
C11_OvershootNeverNegative ==
    [][OpStep("get_channel_metrics") =>
         LET df == MetricsWindow'
             target_temp == df[Len(df)].target_temp
             max_temp == Max(Temperatures(df))
         IN  (df # <<>> /\ target_temp # 0) =>
               /\ ret'.overshoot =
                      Some(IF max_temp <= target_temp THEN 0
                           ELSE ((max_temp - target_temp) * 10000)
                                    \div target_temp)
               /\ target_temp > 0 => ret'.overshoot[1] >= 0]_vars

SustainedFrom(df, target_temp) ==
    {k \in 1 .. Len(df) : (k .. Len(df)) \subseteq RowsInBand(df, target_temp)}

\* C13: settling_time, when defined, is the time of the first sample from
\* which every later sample of the window is inside the tolerance band; it
\* is None when the band is not held through the last sample.
C13_SettlingTimeSustained ==
    [][OpStep("get_channel_metrics") =>
         LET df == MetricsWindow'
             held == SustainedFrom(df, df[Len(df)].target_temp)
         IN  df # <<>> =>
               ret'.settling_time =
                  IF held = {} THEN None
                  ELSE Some(df[Min(held)].timestamp - df[1].timestamp)]_vars

\* Candidate retention limits: a sample count and an age in ms.
RetentionLimit == 2
RetentionAge == 100

\* C18: the series are bounded by a retention policy, a sample count or an
\* age, that every append enforces by evicting.
C18_SeriesBounded ==
    \/ \A c \in ChannelIds : Len(data[c]) <= RetentionLimit
    \/ \A c \in ChannelIds : \A i \in 1 .. Len(data[c]) :
           now - data[c][i].timestamp <= RetentionAge

\* C19: no operation of the store changes a sample that is already in a
\* series: every stored sample stays at its place with the same fields.
C19_StoredSamplesNeverChange ==
    [][\A c \in ChannelIds : \A i \in 1 .. Len(data[c]) :
          /\ i <= Len(data'[c])
          /\ data'[c][i] = data[c][i]]_vars

\* C21: with heating on, a step taken before control_period has elapsed
\* since last_control_time holds the previous value: current_temp, integral,
\* last_error and last_control_time of the channel stay as they are.
C21_HoldBetweenControlTicks ==
    [][OpStep("get_current_state") =>
         \A c \in ChannelIds :
            LET ch == pid_system.channels[c]
            IN  (ch.heating /\ now - ch.last_control_time < ch.control_period)
                  => /\ pid_system'.channels[c].current_temp = ch.current_temp
                     /\ pid_system'.channels[c].integral = ch.integral
                     /\ pid_system'.channels[c].last_error = ch.last_error
                     /\ pid_system'.channels[c].last_control_time
                           = ch.last_control_time]_vars

\* C22: every snapshot get_status returns on a connected device has a
\* timestamp and exactly one entry for each channel id 0..N-1, each with
\* temperature, pid_params and heating; the first read after connect and the
\* reads that fall back to a held snapshot are included.
C22_SnapshotHasEveryChannel ==
    [][OpStep("get_status") =>
         /\ {"timestamp", "channels"} \subseteq DOMAIN ret'
         /\ Len(ret'.channels) = NumChannels
         /\ \A id \in ChannelIds :
               /\ Cardinality(Entries(ret', id)) = 1
               /\ \A e \in Entries(ret', id) :
                     {"temperature", "pid_params", "heating"}
                        \subseteq DOMAIN e]_vars

\* C23: after an optimize call on a channel accepts an advisor response, the
\* gains of that channel on the device are the clamped gains the call
\* returned, all three of them.
C23_AcceptedGainsApplied ==
    [][(/\ OpStep("optimize_params")
        /\ last_op'.line.kind = "json"
        /\ Valid(last_op'.line.obj)
        /\ channels # NoDevice
        /\ ret'.kp.kind = "number"
        /\ ret'.ki.kind = "number"
        /\ ret'.kd.kind = "number")
       => (/\ channels'[last_op'.channel].kp = ret'.kp.val
           /\ channels'[last_op'.channel].ki = ret'.ki.val
           /\ channels'[last_op'.channel].kd = ret'.kd.val)]_vars

\* The step is a set-heating call for a channel in range that reached the
\* simulator (set_heating) or the mock device (a HEAT command).
SimHeatingStep ==
    /\ pid_system # NoDevice
    /\ \/ OpStep("set_heating_on")
       \/ OpStep("set_heating_off")
    /\ last_op'.channel \in ChannelIds

DeviceHeatingStep ==
    /\ serial_manager = "mock"
    /\ \/ OpStep("start_heating")
       \/ OpStep("stop_heating")
    /\ last_op'.channel \in ChannelIds

\* C24: a set-heating operation on channel c changes the heating flag of c
\* and nothing else: the other fields of c, every other channel and the
\* disturbance table stay as they are, and the same command given again
\* leaves the state as the first one left it.
C24_SetHeatingChangesOnlyTheFlag ==
    [][/\ SimHeatingStep =>
            /\ pid_system'.channels =
                  [pid_system.channels EXCEPT
                      ![last_op'.channel].heating =
                          (last_op'.op = "set_heating_on")]
            /\ pid_system'.disturbance = pid_system.disturbance
            /\ (last_op = last_op') => pid_system' = pid_system
       /\ DeviceHeatingStep =>
            /\ channels' =
                  [channels EXCEPT
                      ![last_op'.channel].heating =
                          (last_op'.op = "start_heating")]
            /\ (last_op = last_op') => channels' = channels]_vars

\* The simulator has been called at most once, and with a channel id in
\* range (-1 stands for the None of reset).
CallsInRange ==
    /\ pid_system # NoDevice
    /\ \/ sent = 0
       \/ sent = 1 /\ last_op.channel \in ChannelIds \cup {-1}

\* C25: after update_params, set_heating, add_disturbance and reset calls
\* with channel ids in range, at any times, get_current_state does not raise
\* and returns one entry for each of the N channels.
C25_GetCurrentStateNeverRaises ==
    [][(CallsInRange /\ OpStep("get_current_state"))
          => /\ ~last_op'.raised
             /\ ret' # NoneVal
             /\ Len(ret'.channels) = NumChannels]_vars

\* C27: a connect request that fails leaves the router's manager, its
\* logger and its agent as they were; they are replaced together, by a
\* request that built all of them.
C27_FailedConnectLeavesGlobals ==
    [][OpStep("connect_device") =>
         IF last_op'.raised
         THEN UNCHANGED <<serial_manager, connection, channels, last_update,
                          last_data, data, db>>
         ELSE /\ serial_manager' # "None"
              /\ connection' = "open"
              /\ last_data' = NoneVal
              /\ data' = EmptyLog]_vars

\* A connect request failed while a connected manager held a snapshot and
\* the agent's store held samples.
C27_Witness ==
    /\ last_op.op = "connect_device"
    /\ last_op.raised
    /\ Connected
    /\ last_data # NoneVal
    /\ \E c \in ChannelIds : data[c] # <<>>

\* C30: the clear requests keep the persistent log and the agent's series
\* in step: a request that reports success has cleared both stores for the
\* channels it names, and one that reports failure has changed neither.
C30_ClearKeepsStoresConsistent ==
    [][/\ OpStep("clear_all_data") =>
            IF last_op'.raised THEN UNCHANGED <<db, data>>
            ELSE db' = {} /\ data' = EmptyLog
       /\ OpStep("clear_channel_data") =>
            IF last_op'.raised THEN UNCHANGED <<db, data>>
            ELSE /\ last_op'.channel \notin db'
                 /\ data'[last_op'.channel] = <<>>]_vars

\* The parameter part of a PID command lacks one of the six fields, or one
\* of them is no number.
Malformed(cmd) ==
    \/ Len(cmd.rest) < 2
    \/ Len(cmd.rest[2]) < 6
    \/ \E i \in 1 .. 6 : cmd.rest[2][i].kind = "word"

\* A PID command of the test harness lacks one of its four values, or one
\* of them is no number.
MalformedTest(cmd) ==
    \/ Len(cmd.rest[1]) < 5
    \/ \E i \in 2 .. 5 : cmd.rest[1][i].kind = "word"

\* The step wrote a PID command for a channel in range to the mock device.
PidWriteStep ==
    /\ now' = now
    /\ serial_manager = "mock"
    /\ connection = "open"
    /\ last_op'.line.kind = "command"
    /\ last_op'.line.cmd.type = "PID"
    /\ last_op'.line.cmd.rest[1] = <<IntTok(last_op'.channel)>>
    /\ last_op'.channel \in ChannelIds

\* C26: a PID command for a channel in range that lacks a field, or has a
\* field that is no number, changes no parameter of any channel, and the
\* write returns without raising.
C26_MalformedPidChangesNothing ==
    [][/\ (PidWriteStep /\ Malformed(last_op'.line.cmd))
          => /\ channels' = channels
             /\ ~last_op'.raised
             /\ ret' = [result |-> TRUE]
       /\ (OpStep("MockSerial.write") /\ MalformedTest(last_op'.line.cmd))
          => /\ pid_system' = pid_system
             /\ ~last_op'.raised]_vars

\* A malformed PID command was written for a channel whose gains an earlier
\* command had set.
C26_Witness ==
    /\ last_op.op = "send_command"
    /\ serial_manager = "mock"
    /\ connection = "open"
    /\ ret = [result |-> TRUE]
    /\ Malformed(last_op.line.cmd)
    /\ channels[last_op.channel].kp = 200

\* The step is a call of one of the sending methods of SerialManager.
SendingStep ==
    \/ OpStep("send_command")
    \/ OpStep("SerialManager.start_heating")
    \/ OpStep("SerialManager.stop_heating")
    \/ OpStep("set_pid_params")

\* C28: on a SerialManager without an open connection the sending methods
\* return False and get_status raises, and none of them changes the
\* channels or last_data; disconnect returns True only when a connection
\* was open, and then the manager is not connected.
C28_NotConnectedIsInert ==
    [][/\ (serial_manager # "None" /\ connection # "open") =>
            /\ SendingStep =>
                  /\ ret' = [result |-> FALSE]
                  /\ ~last_op'.raised
                  /\ UNCHANGED <<channels, last_data>>
            /\ OpStep("SerialManager.get_status") =>
                  /\ last_op'.raised
                  /\ UNCHANGED <<channels, last_data>>
       /\ (OpStep("SerialManager.disconnect") /\ ret' = [result |-> TRUE]) =>
            /\ connection = "open"
            /\ connection' # "open"]_vars

\* A command was refused by a manager that had read a snapshot and whose
\* connection was closed by a failed reconnect.
C28_Witness ==
    /\ last_op.op = "send_command"
    /\ ret = [result |-> FALSE]
    /\ connection = "closed"
    /\ last_data # NoneVal

\* C29: a load of the .json file that save_to_file wrote restores the store:
\* every channel id in range is a key again and its series is the one that
\* was saved, and get_channel_data of a channel in range does not raise.
C29_JsonRoundTripRestoresStore ==
    [][/\ (OpStep("load_from_file") /\ last_op'.params.format = "json"
                                    /\ ~last_op'.raised)
          => \A c \in ChannelIds :
                /\ c \in DOMAIN data'
                /\ data'[c] = file.text[StrKey(c)]
       /\ (OpStep("get_channel_data") /\ last_op'.channel \in ChannelIds)
          => ~last_op'.raised]_vars

====
